---- MODULE Spec2Model ----
(***************************************************************************)
(* A model of rd.py, a shell-based reminder system.                        *)
(*                                                                         *)
(* Time is counted in whole hours of local time, hour 0 being 00:00 of     *)
(* proleptic day 1 (date.toordinal() = 1).  Every due the program writes   *)
(* is a whole hour (parse_due_str builds datetime(y, m, d, hour=hour)), so *)
(* `due > now` has the same value for the real clock and for the clock     *)
(* rounded down to the hour.  Local time has no DST change in the model.   *)
(* Strings the program parses are sequences of one-character strings.      *)
(* A Python value that may be absent (None, a raised ValueError) is a      *)
(* sequence of length 0 or 1.  A reminder is a record with the fields      *)
(* text and due, and the field id exactly when the dict has the key 'id'.  *)
(***************************************************************************)
EXTENDS Integers, Sequences, FiniteSets, TLC

VARIABLES
    now,         \* the clock, time.time(), in hours
    isfile,      \* os.path.isfile(~/.rd)
    savefile,    \* the content of ~/.rd: a JSON list of objects
    pc,          \* position of the running invocation; "exit" when none runs
    argv,        \* the command line of the running invocation
    _reminders,  \* the module-level cache: None or <<list>>
    reminders,   \* add_reminder's local list after sorted()
    due,         \* add_reminder's local `due` (result of parse_due_str)
    index,       \* mark_done's local index (0 before it is set)
    output,      \* the lines print_reminders printed in this invocation
    status,      \* how the invocation ended
    listed,      \* history: the lines of the last default listing still current
    added,       \* history: added[i] is the rank of disk[i] among the stored
                 \* reminders in the order in which they were added
    writes       \* history: how often this invocation opened ~/.rd to write

vars == <<now, isfile, savefile, pc, argv, _reminders, reminders, due, index,
          output, status, listed, added, writes>>

----------------------------------------------------------------------------
(* Bounds *)

MaxReminders == 2
MaxTicks == 2

----------------------------------------------------------------------------
(* Strings and int() *)

None == <<>>
ValueError == <<>>

DigitVal ==
    ("0" :> 0) @@ ("1" :> 1) @@ ("2" :> 2) @@ ("3" :> 3) @@ ("4" :> 4) @@
    ("5" :> 5) @@ ("6" :> 6) @@ ("7" :> 7) @@ ("8" :> 8) @@ ("9" :> 9)

IsDigits(s) == Len(s) > 0 /\ \A i \in 1..Len(s) : s[i] \in DOMAIN DigitVal

RECURSIVE DecVal(_)
DecVal(s) ==
    IF s = <<>> THEN 0
    ELSE 10 * DecVal(SubSeq(s, 1, Len(s) - 1)) + DigitVal[s[Len(s)]]

\* int(s) for a str: an optional sign followed by decimal digits, else
\* ValueError.  (Surrounding blanks and '_' separators are not modelled;
\* no input of the model contains them.)
int(s) ==
    IF IsDigits(s) THEN <<DecVal(s)>>
    ELSE IF Len(s) > 1 /\ s[1] = "+" /\ IsDigits(Tail(s)) THEN <<DecVal(Tail(s))>>
    ELSE IF Len(s) > 1 /\ s[1] = "-" /\ IsDigits(Tail(s)) THEN <<0 - DecVal(Tail(s))>>
    ELSE ValueError

endswith(s, suffix) ==
    /\ Len(s) >= Len(suffix)
    /\ SubSeq(s, Len(s) - Len(suffix) + 1, Len(s)) = suffix

startswith(s, prefix) ==
    /\ Len(s) >= Len(prefix)
    /\ SubSeq(s, 1, Len(prefix)) = prefix

\* s.split(sep) for a one-character sep
RECURSIVE split(_, _)
split(s, sep) ==
    IF \A i \in 1..Len(s) : s[i] # sep THEN <<s>>
    ELSE LET i == CHOOSE k \in 1..Len(s) :
                      s[k] = sep /\ \A j \in 1..(k - 1) : s[j] # sep
         IN  <<SubSeq(s, 1, i - 1)>> \o split(SubSeq(s, i + 1, Len(s)), sep)

----------------------------------------------------------------------------
(* datetime.date *)

is_leap(y) == y % 4 = 0 /\ (y % 100 # 0 \/ y % 400 = 0)

days_in_month(y, m) ==
    IF m = 2 THEN (IF is_leap(y) THEN 29 ELSE 28)
    ELSE IF m \in {4, 6, 9, 11} THEN 30 ELSE 31

days_before_year(y) ==
    (y - 1) * 365 + (y - 1) \div 4 - (y - 1) \div 100 + (y - 1) \div 400

RECURSIVE days_before_month(_, _)
days_before_month(y, m) ==
    IF m = 1 THEN 0
    ELSE days_before_month(y, m - 1) + days_in_month(y, m - 1)

date(y, m, d) == [year |-> y, month |-> m, day |-> d]

toordinal(d) == days_before_year(d.year) + days_before_month(d.year, d.month) + d.day

fromordinal(n) ==
    LET y == CHOOSE yy \in (n \div 366)..(n \div 365 + 1) :
                  days_before_year(yy) < n /\ n <= days_before_year(yy + 1)
        r == n - days_before_year(y)
        m == CHOOSE mm \in 1..12 :
                  /\ days_before_month(y, mm) < r
                  /\ r <= days_before_month(y, mm) + days_in_month(y, mm)
    IN  date(y, m, r - days_before_month(y, m))

\* date.replace(year=y): ValueError when the day does not exist in year y
replace_year(d, y) ==
    IF d.day <= days_in_month(y, d.month) THEN <<date(y, d.month, d.day)>>
    ELSE ValueError

\* datetime.strptime(day_str, '%m/%d').date(): one or two digits for the
\* month (1..12) and for the day (1..31), the whole string consumed, the
\* date taken in the default year 1900.
strptime_md(day_str) ==
    LET p == split(day_str, "/") IN
    IF Len(p) # 2 THEN ValueError
    ELSE IF ~(IsDigits(p[1]) /\ Len(p[1]) <= 2 /\ IsDigits(p[2]) /\ Len(p[2]) <= 2)
    THEN ValueError
    ELSE LET m == DecVal(p[1])
             d == DecVal(p[2])
         IN  IF m \in 1..12 /\ d >= 1 /\ d <= days_in_month(1900, m)
             THEN <<date(1900, m, d)>>
             ELSE ValueError

\* date.today() and time.mktime() on the model's clock
today_of(t) == fromordinal(t \div 24 + 1)

mktime(tt) == (toordinal(date(tt.year, tt.month, tt.day)) - 1) * 24 + tt.hour

----------------------------------------------------------------------------
(* The date/time expression parser *)

\* The hour, or ValueError when int() raises.
parse_time_str(time_str) ==
    IF endswith(time_str, <<"a", "m">>)
    THEN int(SubSeq(time_str, 1, Len(time_str) - 2))
    ELSE IF endswith(time_str, <<"p", "m">>)
    THEN LET h == int(SubSeq(time_str, 1, Len(time_str) - 2))
         IN  IF h = ValueError THEN ValueError ELSE <<h[1] + 12>>
    ELSE int(time_str)

Raised(n) == [kind |-> "ValueError", note |-> n]

\* The result is a record: kind "timetuple" with the fields of the time
\* tuple, kind "None" for the returned None, kind "ValueError" for an
\* exception that leaves the function.  note is what was printed on the
\* way: "info" (always printed), "debug" (dbg_print) or "none".
parse_due_str(due_str, today) ==
    LET parts == split(due_str, "@") IN
    IF Len(parts) > 2 THEN [kind |-> "None", note |-> "none"]
    ELSE
    LET day_str == parts[1]
        time_str == IF Len(parts) > 1 THEN parts[2] ELSE <<"8", "a", "m">>
        day0 == IF startswith(day_str, <<"+">>)
                THEN LET n == int(Tail(day_str))
                     IN  IF n = ValueError THEN ValueError
                         ELSE <<fromordinal(toordinal(today) + n[1])>>
                ELSE LET d == strptime_md(day_str)
                     IN  IF d = ValueError THEN ValueError
                         ELSE replace_year(d[1], today.year)
    IN
    IF day0 = ValueError THEN Raised("none")
    ELSE
    LET day == day0[1]
        before == toordinal(day) < toordinal(today)
        note == IF ~before THEN "none"
                ELSE IF toordinal(today) - 30 < toordinal(day) THEN "info"
                ELSE "debug"
        day1 == IF before THEN replace_year(day, today.year + 1) ELSE <<day>>
    IN
    IF day1 = ValueError THEN Raised(note)
    ELSE
    LET hour == parse_time_str(time_str) IN
    IF hour = ValueError THEN Raised(note)
    ELSE IF hour[1] \notin 0..23 THEN Raised(note)
    ELSE [kind |-> "timetuple", note |-> note,
          year |-> day1[1].year, month |-> day1[1].month,
          day |-> day1[1].day, hour |-> hour[1]]

----------------------------------------------------------------------------
(* The reminder store *)

Core(r) == [text |-> r.text, due |-> r.due]

WithId(r, n) == [text |-> r.text, due |-> r.due, id |-> n]

HasId(r) == "id" \in DOMAIN r

\* core_reminders built as the list itself, the key 'id' kept
CoreList_with_id(rs) == rs

CoreList(rs) == [i \in 1..Len(rs) |-> Core(rs[i])]

RemoveAt(s, i) == SubSeq(s, 1, i - 1) \o SubSeq(s, i + 1, Len(s))

\* json.dump(rs, f): the file holds a list of objects, an object being the
\* list of the <<key, value>> pairs of the dict in the order of its keys.
json_dump(rs) ==
    [i \in 1..Len(rs) |->
        << <<"text", rs[i].text>>, <<"due", rs[i].due>> >>
            \o (IF HasId(rs[i]) THEN << <<"id", rs[i].id>> >> ELSE <<>>)]

\* the value of key k in the object obj
json_get(obj, k) == obj[CHOOSE j \in 1..Len(obj) : obj[j][1] = k][2]

\* json.load(f): every object becomes a dict with the keys of its pairs
json_load(f) ==
    [i \in 1..Len(f) |->
        IF \E j \in 1..Len(f[i]) : f[i][j][1] = "id"
        THEN [text |-> json_get(f[i], "text"), due |-> json_get(f[i], "due"),
              id |-> json_get(f[i], "id")]
        ELSE [text |-> json_get(f[i], "text"), due |-> json_get(f[i], "due")]]

\* the list a load of ~/.rd gives (line 107, before add_ids)
disk == json_load(savefile)

\* add_ids_loop with the test `r['due'] >= now`
RECURSIVE add_ids_loop_strict(_, _, _)
add_ids_loop_strict(rs, num_ids_given, t) ==
    IF rs = <<>> THEN <<>>
    ELSE LET r == Head(rs) IN
         IF r.due >= t
         THEN <<Core(r)>> \o add_ids_loop_strict(Tail(rs), num_ids_given, t)
         ELSE <<WithId(r, num_ids_given + 1)>>
                  \o add_ids_loop_strict(Tail(rs), num_ids_given + 1, t)

\* add_ids_loop without the test of due: every reminder gets an id
RECURSIVE add_ids_loop_all(_, _, _)
add_ids_loop_all(rs, num_ids_given, t) ==
    IF rs = <<>> THEN <<>>
    ELSE <<WithId(Head(rs), num_ids_given + 1)>>
             \o add_ids_loop_all(Tail(rs), num_ids_given + 1, t)

\* add_ids_loop without `num_ids_given += 1`
RECURSIVE add_ids_loop_same(_, _, _)
add_ids_loop_same(rs, num_ids_given, t) ==
    IF rs = <<>> THEN <<>>
    ELSE LET r == Head(rs) IN
         IF r.due > t
         THEN <<Core(r)>> \o add_ids_loop_same(Tail(rs), num_ids_given, t)
         ELSE <<WithId(r, num_ids_given + 1)>>
                  \o add_ids_loop_same(Tail(rs), num_ids_given, t)

\* The loop of add_ids over the rest of the list, num_ids_given ids given
\* so far, the clock read at t.
RECURSIVE add_ids_loop(_, _, _)
add_ids_loop(rs, num_ids_given, t) ==
    IF rs = <<>> THEN <<>>
    ELSE LET r == Head(rs) IN
         IF r.due > t
         THEN <<Core(r)>> \o add_ids_loop(Tail(rs), num_ids_given, t)
         ELSE <<WithId(r, num_ids_given + 1)>>
                  \o add_ids_loop(Tail(rs), num_ids_given + 1, t)

add_ids(rs, t) == add_ids_loop(rs, 0, t)

\* The value get_reminders() returns and leaves in the cache.
get_reminders(cache, file, stored, t) ==
    IF cache # None THEN cache[1]
    ELSE IF file THEN add_ids(stored, t)
    ELSE <<>>

\* sorted_insert placing r before the elements of equal due, as sorting
\* ascending and reversing the result would
sorted_insert_reversed(s, r) ==
    LET k == Cardinality({i \in 1..Len(s) : s[i].due > r.due})
    IN  SubSeq(s, 1, k) \o <<r>> \o SubSeq(s, k + 1, Len(s))

\* sorted(reminders, key=lambda x: x['due'], reverse=True): a stable sort,
\* records with equal keys keep their order.  One step of it: r, which
\* comes after every element of s in the input, is placed in s.
sorted_insert(s, r) ==
    LET k == Cardinality({i \in 1..Len(s) : s[i].due >= r.due})
    IN  SubSeq(s, 1, k) \o <<r>> \o SubSeq(s, k + 1, Len(s))

RECURSIVE sorted(_)
sorted(rs) ==
    IF rs = <<>> THEN <<>>
    ELSE sorted_insert(sorted(SubSeq(rs, 1, Len(rs) - 1)), rs[Len(rs)])

\* The lines print_reminders prints, one per reminder it does not skip.  A
\* line is the reminder it shows: its id is the number of the prefix
\* '%02d.', and a line without id is one printed with the prefix '--.'.
RECURSIVE lines(_, _, _)
lines(rs, t, do_show_all) ==
    IF rs = <<>> THEN <<>>
    ELSE IF Head(rs).due > t /\ ~do_show_all
    THEN lines(Tail(rs), t, do_show_all)
    ELSE <<Head(rs)>> \o lines(Tail(rs), t, do_show_all)

\* matching taking the id as the position in the list
matching_by_position(rs, id_num) == {i \in 1..Len(rs) : i = id_num}

\* matching = [i for i, r in enumerate(reminders) if r.get('id') == id_num]
matching(rs, id_num) ==
    {i \in 1..Len(rs) : HasId(rs[i]) /\ rs[i].id = id_num}

----------------------------------------------------------------------------
(* Inputs *)

Texts == {"a", "b"}

\* due expressions: 13:00, 14:00 and 15:00 of 2024-03-01 when read on that
\* day, one with more than one '@', one whose hour is out of range, one
\* whose day is in no known format
GoodDueStrs ==
    { <<"+", "0", "@", "1", "3">>,
      <<"+", "0", "@", "2", "p", "m">>,
      <<"3", "/", "1", "@", "1", "5">> }

BadDueStrs ==
    { <<"1", "@", "2", "@", "3">>,
      <<"+", "0", "@", "1", "2", "p", "m">>,
      <<"x">> }

DueStrs == GoodDueStrs \cup BadDueStrs

Ids == (0 - 1)..(MaxReminders + 1)

StartNow == mktime([year |-> 2024, month |-> 3, day |-> 1, hour |-> 13])

NoArgs == [cmd |-> "rd", due_str |-> <<>>, text |-> "", id |-> 0]

NoDue == [kind |-> "unset", note |-> "none"]

----------------------------------------------------------------------------
(* The state machine *)

Init ==
    /\ now = StartNow
    /\ isfile = FALSE
    /\ savefile = <<>>
    /\ pc = "exit"
    /\ argv = NoArgs
    /\ _reminders = None
    /\ reminders = <<>>
    /\ due = NoDue
    /\ index = 0
    /\ output = <<>>
    /\ status = "ok"
    /\ listed = <<>>
    /\ added = <<>>
    /\ writes = 0

\* The clock advances, at any point of an invocation or between two.
Tick ==
    /\ now < StartNow + MaxTicks
    /\ now' = now + 1
    /\ UNCHANGED <<isfile, savefile, pc, argv, _reminders, reminders, due, index,
                   output, status, listed, added, writes>>

\* A new process starts: the dispatch on sys.argv.
main ==
    /\ pc = "exit"
    /\ \/ /\ argv' \in {[NoArgs EXCEPT !.cmd = c] : c \in {"rd", "ls"}}
          /\ pc' = "print_reminders"
       \/ /\ Len(disk) < MaxReminders
          /\ argv' \in {[NoArgs EXCEPT !.cmd = "add", !.due_str = d, !.text = t] :
                            d \in DueStrs, t \in Texts}
          /\ pc' = "add_reminder"
       \/ /\ argv' \in {[NoArgs EXCEPT !.cmd = "done", !.id = n] : n \in Ids}
          /\ pc' = "mark_done"
    /\ _reminders' = None
    /\ reminders' = <<>>
    /\ due' = NoDue
    /\ index' = 0
    /\ output' = <<>>
    /\ status' = "running"
    /\ writes' = 0
    /\ UNCHANGED <<now, isfile, savefile, listed, added>>

\* print_reminders, line 134
print_reminders_get ==
    /\ pc = "print_reminders"
    /\ _reminders' = <<get_reminders(_reminders, isfile, disk, now)>>
    /\ pc' = "print_loop"
    /\ UNCHANGED <<now, isfile, savefile, argv, reminders, due, index, output,
                   status, listed, added, writes>>

\* print_reminders_loop ending with a save of the list it printed
print_reminders_loop_saves ==
    /\ pc = "print_loop"
    /\ output' = lines(_reminders[1], now, argv.cmd = "ls")
    /\ listed' = IF argv.cmd = "ls" THEN listed ELSE output'
    /\ status' = "ok"
    /\ pc' = "exit"
    /\ savefile' = json_dump(CoreList(_reminders[1]))
    /\ isfile' = TRUE
    /\ writes' = writes + 1
    /\ UNCHANGED <<now, argv, _reminders, reminders, due, index, added>>

\* print_reminders, lines 140-158
print_reminders_loop ==
    /\ pc = "print_loop"
    /\ output' = lines(_reminders[1], now, argv.cmd = "ls")
    /\ listed' = IF argv.cmd = "ls" THEN listed ELSE output'
    /\ status' = "ok"
    /\ pc' = "exit"
    /\ UNCHANGED <<now, isfile, savefile, argv, _reminders, reminders, due, index,
                   added, writes>>

\* add_reminder_parse with the load moved before the test of the result
add_reminder_parse_loaded ==
    /\ pc = "add_reminder"
    /\ due' = parse_due_str(argv.due_str, today_of(now))
    /\ _reminders' = <<get_reminders(_reminders, isfile, disk, now)>>
    /\ IF due'.kind = "None"
       THEN pc' = "exit" /\ status' = "parse_error"
       ELSE IF due'.kind = "ValueError"
       THEN pc' = "exit" /\ status' = "exception"
       ELSE pc' = "add_get" /\ status' = status
    /\ UNCHANGED <<now, isfile, savefile, argv, reminders, index, output, listed,
                   added, writes>>

\* add_reminder, lines 226-231
add_reminder_parse ==
    /\ pc = "add_reminder"
    /\ due' = parse_due_str(argv.due_str, today_of(now))
    /\ IF due'.kind = "None"
       THEN pc' = "exit" /\ status' = "parse_error"
       ELSE IF due'.kind = "ValueError"
       THEN pc' = "exit" /\ status' = "exception"
       ELSE pc' = "add_get" /\ status' = status
    /\ UNCHANGED <<now, isfile, savefile, argv, _reminders, reminders, index,
                   output, listed, added, writes>>

\* add_reminder, line 233
add_reminder_get ==
    /\ pc = "add_get"
    /\ _reminders' = <<get_reminders(_reminders, isfile, disk, now)>>
    /\ pc' = "add_append"
    /\ UNCHANGED <<now, isfile, savefile, argv, reminders, due, index, output,
                   status, listed, added, writes>>

\* add_reminder_append sorting the list as it was before the append
add_reminder_append_lost ==
    /\ pc = "add_append"
    /\ _reminders' = <<Append(_reminders[1],
                              [text |-> argv.text, due |-> mktime(due)])>>
    /\ reminders' = sorted(_reminders[1])
    /\ pc' = "add_save"
    /\ UNCHANGED <<now, isfile, savefile, argv, due, index, output, status,
                   listed, added, writes>>

\* add_reminder, lines 234-235: the append changes the cached list in
\* place, sorted() builds a new list
add_reminder_append ==
    /\ pc = "add_append"
    /\ _reminders' = <<Append(_reminders[1],
                              [text |-> argv.text, due |-> mktime(due)])>>
    /\ reminders' = sorted(_reminders'[1])
    /\ pc' = "add_save"
    /\ UNCHANGED <<now, isfile, savefile, argv, due, index, output, status,
                   listed, added, writes>>

\* add_reminder, lines 236-239, with save_reminders
add_reminder_save ==
    /\ pc = "add_save"
    /\ _reminders' = <<add_ids(reminders, now)>>
    /\ savefile' = json_dump(CoreList(reminders))
    /\ isfile' = TRUE
    /\ status' = "ok"
    /\ pc' = "exit"
    /\ listed' = <<>>
    /\ added' = LET old == [i \in 1..Len(disk) |->
                                [due |-> disk[i].due, rank |-> added[i]]]
                    new == [due |-> mktime(due), rank |-> Len(disk) + 1]
                    s == sorted(Append(old, new))
                IN  [i \in 1..Len(s) |-> s[i].rank]
    /\ writes' = writes + 1
    /\ UNCHANGED <<now, argv, reminders, due, index, output>>

\* mark_done, line 243
mark_done_get ==
    /\ pc = "mark_done"
    /\ _reminders' = <<get_reminders(_reminders, isfile, disk, now)>>
    /\ pc' = "md_match"
    /\ UNCHANGED <<now, isfile, savefile, argv, reminders, due, index, output,
                   status, listed, added, writes>>

\* mark_done, lines 251-261: the del changes the cached list in place
mark_done_match ==
    /\ pc = "md_match"
    /\ LET m == matching(_reminders[1], argv.id) IN
       IF m = {}
       THEN /\ status' = "not_found"
            /\ pc' = "exit"
            /\ UNCHANGED <<_reminders, index>>
       ELSE IF Cardinality(m) # 1
       THEN /\ status' = "assertion"
            /\ pc' = "exit"
            /\ UNCHANGED <<_reminders, index>>
       ELSE /\ index' = CHOOSE i \in m : TRUE
            /\ _reminders' = <<RemoveAt(_reminders[1], index')>>
            /\ pc' = "md_save"
            /\ status' = status
    /\ UNCHANGED <<now, isfile, savefile, argv, reminders, due, output, listed,
                   added, writes>>

\* mark_done, line 262, with save_reminders
mark_done_save ==
    /\ pc = "md_save"
    /\ _reminders' = <<add_ids(_reminders[1], now)>>
    /\ savefile' = json_dump(CoreList(_reminders[1]))
    /\ isfile' = TRUE
    /\ pc' = "print_reminders"
    /\ listed' = <<>>
    /\ added' = LET s == RemoveAt(added, index)
                IN  [i \in 1..Len(s) |->
                        IF s[i] > added[index] THEN s[i] - 1 ELSE s[i]]
    /\ writes' = writes + 1
    /\ UNCHANGED <<now, argv, reminders, due, index, output, status>>

Next ==
    \/ Tick
    \/ main
    \/ print_reminders_get
    \/ print_reminders_loop
    \/ add_reminder_parse
    \/ add_reminder_get
    \/ add_reminder_append
    \/ add_reminder_save
    \/ mark_done_get
    \/ mark_done_match
    \/ mark_done_save

Spec == Init /\ [][Next]_vars

----------------------------------------------------------------------------
(* Definitions used to state the properties *)

DueIdx(rs, t) == {i \in 1..Len(rs) : rs[i].due <= t}

\* the number of reminders due at t among the first i of rs
Rank(rs, i, t) == Cardinality({j \in DueIdx(rs, t) : j <= i})

\* rs carries exactly the display ids of instant t
IdsAsOf(rs, t) ==
    \A i \in 1..Len(rs) :
        IF rs[i].due <= t
        THEN HasId(rs[i]) /\ rs[i].id = Rank(rs, i, t)
        ELSE ~HasId(rs[i])

\* the reminders of rs due at t, in the order of rs, numbered 1..K
DueNumbered(rs, t) ==
    LET nth(k) == CHOOSE i \in DueIdx(rs, t) : Rank(rs, i, t) = k
    IN  [k \in 1..Cardinality(DueIdx(rs, t)) |-> WithId(rs[nth(k)], k)]

Count(r, s) == Cardinality({i \in 1..Len(s) : s[i] = r})

\* s without its first element equal to r
RemoveOne(s, r) ==
    IF \E i \in 1..Len(s) : s[i] = r
    THEN RemoveAt(s, CHOOSE i \in 1..Len(s) :
                         s[i] = r /\ \A j \in 1..(i - 1) : s[j] # r)
    ELSE s

SortedDesc(s) == \A i, j \in 1..Len(s) : i < j => s[i].due >= s[j].due

----------------------------------------------------------------------------
(* Properties *)

\* C1: if the last default listing shows reminder R with id n and no add or
\* complete happened since, `done n` removes R and no other reminder,
\* whatever time has passed since the listing.
C1_DoneRemovesListed ==
    [][\A k \in 1..Len(listed) :
          (pc = "md_match" /\ pc' # pc /\ HasId(listed[k])
                /\ listed[k].id = argv.id)
          => /\ pc' = "md_save"
             /\ CoreList(_reminders'[1]) = RemoveOne(disk, Core(listed[k]))]_vars

\* C2: after every load from disk and after every save the cached list
\* carries the ids 1..K, in list order, on exactly the reminders with
\* due <= now, now being the instant of that load or save.
C2_IdsAfterLoadAndSave ==
    [][(\/ _reminders = None /\ _reminders' # None
        \/ pc \in {"add_save", "md_save"} /\ pc' # pc)
       => IdsAsOf(_reminders'[1], now')]_vars

\* C2 witness: a save left a list with a due reminder numbered and a
\* pending reminder without id.
C2_Witness ==
    /\ pc = "exit" /\ argv.cmd = "add" /\ status = "ok"
    /\ Len(_reminders[1]) = 2
    /\ ~HasId(_reminders[1][1])
    /\ HasId(_reminders[1][2])

\* C3: the default listing shows exactly the reminders with due <= the
\* instant of the listing, every one with a numeric id, the ids being 1..K
\* in list order.
C3_ListingNumbered ==
    [][(pc = "print_loop" /\ pc' # pc /\ argv.cmd = "rd")
       => output' = DueNumbered(disk, now)]_vars

\* C4: complete(id) with id the display id of a due reminder removes exactly
\* that reminder from the cached list and from the stored list, the others
\* keeping text, due and order, and the listing that follows numbers the
\* remaining due reminders from 1 with no gap.
C4_CompleteRemovesOne ==
    [][/\ (pc = "md_match" /\ pc' = "md_save")
          => /\ HasId(_reminders[1][index'])
             /\ _reminders[1][index'].id = argv.id
             /\ CoreList(_reminders'[1]) = RemoveAt(disk, index')
       /\ (pc = "md_save" /\ pc' # pc)
          => /\ disk' = RemoveAt(disk, index)
             /\ CoreList(_reminders'[1]) = disk'
       /\ (pc = "print_loop" /\ pc' # pc /\ argv.cmd = "done")
          => output' = DueNumbered(disk, now)]_vars

\* C5: complete(id) when no due reminder carries that display id ends with
\* the not-found error, removes no record and performs no save: the cached
\* list and the stored list are what they were.
C5_NotFoundChangesNothing ==
    [][(/\ pc = "md_match" /\ pc' # pc
        /\ \A i \in 1..Len(_reminders[1]) :
               ~(HasId(_reminders[1][i]) /\ _reminders[1][i].id = argv.id))
       => /\ status' = "not_found"
          /\ pc' = "exit"
          /\ _reminders' = _reminders
          /\ CoreList(_reminders'[1]) = disk
          /\ disk' = disk /\ isfile' = isfile]_vars

\* C5 witness: a done ended not-found on a store that holds a reminder.
\* The id given is 0 while the first reminder is pending, or beyond K.
C5_Witness ==
    /\ pc = "exit" /\ argv.cmd = "done" /\ status = "not_found"
    /\ Len(disk) = 2
    /\ disk[1].due > now
    /\ argv.id \in {0, 2}

\* C6: add with a due expression that fails to parse ends at once, before
\* the set is loaded, appended to or written: cached list and stored list
\* are what they were.
C6_ParseFailureChangesNothing ==
    [][(pc = "add_reminder" /\ pc' # pc /\ argv.due_str \in BadDueStrs)
       => /\ pc' = "exit"
          /\ status' \in {"parse_error", "exception"}
          /\ _reminders = None /\ _reminders' = None
          /\ reminders' = reminders
          /\ disk' = disk /\ isfile' = isfile]_vars

\* C6 witness: an add ended in a parse failure on a store holding reminders.
C6_Witness ==
    /\ pc = "exit" /\ argv.cmd = "add"
    /\ status \in {"parse_error", "exception"}
    /\ Len(disk) > 0

\* C7: from the empty store, after every operation the stored list and the
\* cached list are ordered by due descending, reminders of equal due in the
\* order in which they were added.
C7_SortedStable ==
    pc = "exit"
    => /\ SortedDesc(disk)
       /\ _reminders # None => CoreList(_reminders[1]) = disk
       /\ Len(added) = Len(disk)
       /\ \A i, j \in 1..Len(disk) :
              (i < j /\ disk[i].due = disk[j].due) => added[i] < added[j]

\* C7 witness: two stored reminders of equal due and different text.
C7_Witness ==
    /\ pc = "exit"
    /\ Len(disk) = 2
    /\ disk[1].due = disk[2].due
    /\ disk[1].text # disk[2].text

\* the instants the good due expressions denote when read on 2024-03-01
DueOf ==
    (<<"+", "0", "@", "1", "3">> :> StartNow) @@
    (<<"+", "0", "@", "2", "p", "m">> :> StartNow + 1) @@
    (<<"3", "/", "1", "@", "1", "5">> :> StartNow + 2)

\* C8: a successful add grows the stored list by exactly one record, the
\* given text with the resolved due; the records present before are still
\* there, unchanged and in the same order, and the cached list equals the
\* stored list.
C8_AddGrowsByOne ==
    [][(pc = "add_save" /\ pc' # pc)
       => LET rec == [text |-> argv.text, due |-> DueOf[argv.due_str]] IN
          /\ Len(disk') = Len(disk) + 1
          /\ \E p \in 1..Len(disk') :
                 disk'[p] = rec /\ RemoveAt(disk', p) = disk
          /\ CoreList(_reminders'[1]) = disk'
          /\ isfile']_vars

\* C8 witness: an add placed its record after a different record.
C8_Witness ==
    /\ pc = "exit" /\ argv.cmd = "add" /\ status = "ok"
    /\ Len(disk) = 2
    /\ disk[2] = [text |-> argv.text, due |-> DueOf[argv.due_str]]
    /\ disk[1] # disk[2]

----------------------------------------------------------------------------
(* The parser alone: `rd add +0@<time> <text>` on the empty store, up to   *)
(* the result of parse_due_str                                             *)

DigitChar == <<"0", "1", "2", "3", "4", "5", "6", "7", "8", "9">>

\* str(n) for 0 <= n < 100
Str(n) ==
    IF n < 10 THEN <<DigitChar[n + 1]>>
    ELSE <<DigitChar[(n \div 10) + 1], DigitChar[(n % 10) + 1]>>

Plus0At == <<"+", "0", "@">>

TimeStrs ==
    {Str(h) \o <<"a", "m">> : h \in 0..13} \cup
    {Str(h) \o <<"p", "m">> : h \in 0..13} \cup
    {Str(h) : h \in 0..25}

InitParse ==
    /\ now = StartNow
    /\ isfile = FALSE
    /\ savefile = <<>>
    /\ pc = "add_reminder"
    /\ argv \in {[NoArgs EXCEPT !.cmd = "add", !.due_str = Plus0At \o ts,
                                !.text = t] : ts \in TimeStrs, t \in Texts}
    /\ _reminders = None
    /\ reminders = <<>>
    /\ due = NoDue
    /\ index = 0
    /\ output = <<>>
    /\ status = "running"
    /\ listed = <<>>
    /\ added = <<>>
    /\ writes = 0

NextParse == add_reminder_parse

SpecParse == InitParse /\ [][NextParse]_vars

\* C10: the time of day resolves to hour H for H am (H in 1..11), 0 for
\* 12am, H + 12 for H pm (H in 1..11), 12 for 12pm, and H for a bare H in
\* 0..23.
C10_HoursResolved ==
    due.kind # "unset"
    => \A H \in 0..23 :
         /\ (H \in 1..12 /\ argv.due_str = Plus0At \o Str(H) \o <<"a", "m">>)
            => due.kind = "timetuple" /\ due.hour = (IF H = 12 THEN 0 ELSE H)
         /\ (H \in 1..12 /\ argv.due_str = Plus0At \o Str(H) \o <<"p", "m">>)
            => due.kind = "timetuple" /\ due.hour = (IF H = 12 THEN 12 ELSE H + 12)
         /\ argv.due_str = Plus0At \o Str(H)
            => due.kind = "timetuple" /\ due.hour = H

----------------------------------------------------------------------------
(* Persistence *)

\* C14: the list a save writes holds, for each reminder of the saved set and
\* in its order, an object with exactly the fields text and due, never the
\* id; a load in a fresh invocation gives the same ordered (text, due) pairs
\* as the file holds.
C14_SaveLoadRoundTrip ==
    [][/\ (pc \in {"add_save", "md_save"} /\ pc' # pc)
          => LET saved == IF pc = "add_save" THEN reminders ELSE _reminders[1]
             IN  /\ Len(savefile') = Len(saved)
                 /\ \A i \in 1..Len(saved) :
                        savefile'[i] = << <<"text", saved[i].text>>,
                                          <<"due", saved[i].due>> >>
       /\ (_reminders = None /\ _reminders' # None /\ isfile)
          => /\ Len(_reminders'[1]) = Len(savefile)
             /\ \A i \in 1..Len(savefile) :
                    /\ _reminders'[1][i].text = savefile[i][1][2]
                    /\ _reminders'[1][i].due = savefile[i][2][2]
                    /\ DOMAIN _reminders'[1][i] \subseteq {"text", "due", "id"}]_vars

\* C14 witness: a fresh invocation loaded a file of two objects, written by
\* a save of a set in which a reminder carried an id.
C14_Witness ==
    /\ pc = "print_loop" /\ argv.cmd = "rd"
    /\ Len(savefile) = 2
    /\ Len(_reminders[1]) = 2
    /\ HasId(_reminders[1][2])
    /\ savefile[1][1][2] # savefile[2][1][2]

\* C16: the cache reflects the reminders on disk: whenever it is loaded
\* its (text, due) pairs are those of the stored list, and it changes only
\* inside get_reminders() or save_reminders() (or when a new process starts
\* with the cache unset).
C16_CacheReflectsDisk ==
    [][/\ _reminders' # None => CoreList(_reminders'[1]) = disk'
       /\ _reminders' # _reminders
          => pc \in {"exit", "print_reminders", "add_get", "mark_done",
                     "add_save", "md_save"}]_vars

\* C17: no two reminders of the cached list carry the same id, the list of
\* the reminders matching the id given to done has length 0 or 1, and the
\* assertion of mark_done never fails.
C17_IdsInjective ==
    /\ _reminders # None
       => \A i, j \in 1..Len(_reminders[1]) :
              (i # j /\ HasId(_reminders[1][i]) /\ HasId(_reminders[1][j]))
              => _reminders[1][i].id # _reminders[1][j].id
    /\ pc = "md_match"
       => Cardinality({i \in 1..Len(_reminders[1]) :
                          HasId(_reminders[1][i])
                          /\ _reminders[1][i].id = argv.id}) <= 1
    /\ status # "assertion"

\* C17 witness: done is about to match id 2 in a list of two numbered
\* reminders.
C17_Witness ==
    /\ pc = "md_match" /\ argv.id = 2
    /\ Len(_reminders[1]) = 2
    /\ HasId(_reminders[1][1]) /\ HasId(_reminders[1][2])

\* C18: an invocation writes ~/.rd at most once, and the steps of a listing
\* write nothing: the file is what it was, and the cached list is the
\* stored list (after the load) or unchanged.
C18_OneWriteListingNone ==
    [][/\ writes' <= 1
       /\ (pc \in {"print_reminders", "print_loop"} /\ pc' # pc)
          => /\ savefile' = savefile /\ isfile' = isfile
             /\ writes' = writes
             /\ IF _reminders = None
                THEN CoreList(_reminders'[1]) = disk
                ELSE _reminders' = _reminders]_vars

\* C18 witness: a done ended, listing included, after its one write.
C18_Witness ==
    /\ pc = "exit" /\ argv.cmd = "done" /\ status = "ok"
    /\ writes = 1
    /\ Len(disk) > 0
    /\ Len(output) > 0

----------------------------------------------------------------------------
(* Saves that fail *)

\* ranks 1..n in the order of s
Compress(s) ==
    [i \in 1..Len(s) |-> Cardinality({j \in 1..Len(s) : s[j] <= s[i]})]

\* save_reminders (lines 116-130) when the write fails: the cache has been
\* set at line 120; either open(savefile, 'w') raises and the file is what
\* it was, or it has truncated the file and json.dump raises after
\* writing part of the list.  The exception leaves the program.  (Only the
\* cuts between two objects are modelled; a cut inside an object leaves a
\* file that is not JSON.)
save_reminders_fails ==
    /\ pc \in {"add_save", "md_save"}
    /\ LET saved == IF pc = "add_save" THEN reminders ELSE _reminders[1]
           ranks == IF pc = "add_save"
                    THEN LET old == [i \in 1..Len(disk) |->
                                        [due |-> disk[i].due, rank |-> added[i]]]
                             new == [due |-> mktime(due), rank |-> Len(disk) + 1]
                             s == sorted(Append(old, new))
                         IN  [i \in 1..Len(s) |-> s[i].rank]
                    ELSE RemoveAt(added, index)
       IN  /\ _reminders' = <<add_ids(saved, now)>>
           /\ \/ UNCHANGED <<savefile, isfile, added>>
              \/ \E k \in 0..(Len(saved) - 1) :
                    /\ savefile' = SubSeq(json_dump(CoreList(saved)), 1, k)
                    /\ isfile' = TRUE
                    /\ added' = Compress(SubSeq(ranks, 1, k))
    /\ status' = "exception"
    /\ pc' = "exit"
    /\ listed' = <<>>
    /\ writes' = writes + 1
    /\ UNCHANGED <<now, argv, reminders, due, index, output>>

NextIO == Next \/ save_reminders_fails

SpecIO == Init /\ [][NextIO]_vars

\* C15: a save is atomic: when the write fails the file still holds the
\* complete list it held before, and the failure leaves the program as an
\* exception, never as a success.
C15_SaveAtomic ==
    [][(pc \in {"add_save", "md_save"} /\ status' = "exception")
       => /\ savefile' = savefile
          /\ pc' = "exit"]_vars

----------------------------------------------------------------------------
(* The parser on days: `rd add <expression> <text>` on the empty store, on *)
(* several days, up to the result of parse_due_str                         *)

MaxOffset == 35

\* 'MM/DD'
MonthDay(m, d) ==
    <<DigitChar[(m \div 10) + 1], DigitChar[(m % 10) + 1], "/",
      DigitChar[(d \div 10) + 1], DigitChar[(d % 10) + 1]>>

\* '+N', the N written as str(N)
Offset(n) == IF n < 0 THEN <<"+", "-">> \o Str(0 - n) ELSE <<"+">> \o Str(n)

MonthDayStrs == {MonthDay(m, d) : m \in 1..12, d \in 1..31}

OffsetStrs == {Offset(n) : n \in (0 - MaxOffset)..MaxOffset}

\* one or two expressions of every class of parse failure: unknown day
\* format, non-integer hour, more than one '@', hour out of range
UnknownDayStrs == { <<"x">>, <<"1", "3", "/", "0", "1">>, <<"+", "x">> }
NonIntegerHourStrs == { <<"+", "0", "@", "x">>, <<"3", "/", "1", "@", "a", "m">> }
TwoAtStrs == { <<"1", "@", "2", "@", "3">>, <<"3", "/", "1", "@", "@">> }
HourRangeStrs == { <<"+", "0", "@", "2", "5">>, <<"+", "0", "@", "1", "3", "p", "m">> }

ParseFailures ==
    UnknownDayStrs \cup NonIntegerHourStrs \cup TwoAtStrs \cup HourRangeStrs

\* the days on which the expressions are read, at 13:00
Todays ==
    { date(2024, 3, 1), date(2024, 2, 29), date(2024, 1, 1), date(2024, 1, 31),
      date(2024, 12, 31), date(2023, 3, 31), date(2025, 7, 15) }

InitDates ==
    /\ now \in {mktime([year |-> t.year, month |-> t.month, day |-> t.day,
                        hour |-> 13]) : t \in Todays}
    /\ isfile = FALSE
    /\ savefile = <<>>
    /\ pc = "add_reminder"
    /\ argv \in {[NoArgs EXCEPT !.cmd = "add", !.due_str = e, !.text = "a"] :
                    e \in MonthDayStrs \cup OffsetStrs \cup ParseFailures}
    /\ _reminders = None
    /\ reminders = <<>>
    /\ due = NoDue
    /\ index = 0
    /\ output = <<>>
    /\ status = "running"
    /\ listed = <<>>
    /\ added = <<>>
    /\ writes = 0

NextDates == add_reminder_parse

SpecDates == InitDates /\ [][NextDates]_vars

\* C11: every class of parse failure makes parse_due_str return None, and
\* add ends in the reported parse error (exit status 2), not in an
\* exception.
C11_FailuresReported ==
    (due.kind # "unset" /\ argv.due_str \in ParseFailures)
    => /\ due.kind = "None"
       /\ status = "parse_error"
       /\ pc = "exit"

\* C12: an MM/DD that exists in today's year resolves to that month and day
\* of today's year when that date is on or after today, and of the next
\* year when it is before today.
C12_YearInferred ==
    due.kind # "unset"
    => LET today == today_of(now) IN
       \A m \in 1..12 : \A d \in 1..31 :
          (argv.due_str = MonthDay(m, d) /\ d <= days_in_month(today.year, m))
          => /\ due.kind = "timetuple"
             /\ due.month = m /\ due.day = d
             /\ due.year = (IF toordinal(date(today.year, m, d)) >= toordinal(today)
                            THEN today.year ELSE today.year + 1)

\* C13: '+N' resolves to today + N days for every integer N, zero and
\* negative included, and the year is never advanced.
C13_OffsetExact ==
    due.kind # "unset"
    => \A n \in (0 - MaxOffset)..MaxOffset :
          argv.due_str = Offset(n)
          => /\ due.kind = "timetuple"
             /\ toordinal(date(due.year, due.month, due.day))
                    = toordinal(today_of(now)) + n
             /\ due.note = "none"

\* C19: for an MM/DD the user-visible note is printed exactly when the date
\* of the current year lies 1 to 30 days before today, the debug note when
\* it lies more than 30 days before today, and none when it does not roll.
C19_NoteWithin30Days ==
    due.kind # "unset"
    => LET today == today_of(now) IN
       \A m \in 1..12 : \A d \in 1..31 :
          (argv.due_str = MonthDay(m, d) /\ d <= days_in_month(1900, m))
          => LET before == toordinal(today) - toordinal(date(today.year, m, d))
             IN  due.note = (IF before <= 0 THEN "none"
                             ELSE IF before <= 30 THEN "info" ELSE "debug")

====
